---- MODULE Spec2Model ----
(***************************************************************************)
(* Model of the GitHub repository retriever: the rate-limited transport    *)
(* (src/github.py, class Github) and the pagination controller             *)
(* (src/retriever.py, DataFetcher.read_repos_data and run).                *)
(*                                                                         *)
(* One action is the code between two blocking HTTP requests: an action    *)
(* receives the outcome of the request in flight, runs the transport's     *)
(* handling of it and, when the logical call returns, the caller's code up *)
(* to the next request.                                                    *)
(*                                                                         *)
(* Python values: None is the empty tuple <<>>; a string s is <<s>>; the   *)
(* f-string "\"{x}\"" is the three-part text <<"\"", str(x), "\"">>.       *)
(***************************************************************************)
EXTENDS Integers, Sequences, FiniteSets, TLC

VARIABLES
    pc,                     \* "run": top of run's for loop; "graphql", "readme":
                            \* a request in flight; "graphql_ret", "readme_ret":
                            \* the logical call has returned; "raised"; run has
                            \* ended: "done_empty" (line 201), "done_cursor"
                            \* (line 205), "done_max" (the for loop is exhausted)
                            \* "sleep", "parse" and "slept", "parsed": before and
                            \* after a pure function is applied on its own
    raised,                 \* name of the exception that ended the process, "" if none
    \* ---- run() locals (src/retriever.py:180-206): the loop index and the
    \*      chunks handed to save_to_csv.  run's start_from_stars and
    \*      start_cursor are not separate variables: run copies the returned
    \*      more_than_stars and next_cursor into them (lines 198, 206) and
    \*      passes them straight back (line 197), so between two calls they
    \*      are the values more_than_stars and next_cursor hold.
    i, saved,
    \* ---- DataFetcher fields (src/retriever.py:23-26)
    total_read, reset_counter, read_ids,
    \* ---- read_repos_data locals (src/retriever.py:109-154); the page
    \*      number, which the code only logs, is left out
    repos_data, more_than_stars, next_cursor, gql,
    \* ---- locals of one iteration of the page loop while its READMEs are
    \*      fetched (cleared when the iteration ends: they are dead by then)
    last_stargazers_count, repos_data_part, parsed_cursor, enhanced,
    \* ---- Github transport: the logical call in flight (src/github.py:39-57)
    \*      retry_num is _with_session's argument; attempts counts the HTTP
    \*      requests answered in this call; response and sleeps are the last
    \*      answer and the time.sleep calls made on it; result is what the
    \*      logical call returned
    retry_num, attempts, response, sleeps, result,
    \* ---- the remote result set (used by the faithful remote only)
    remote,
    \* ---- history, read by the properties only: the raw records received
    \*      since the last query sent with the start cursor; the ids of all
    \*      raw records received; the README calls made for the page being
    \*      processed and the number of its records that were not in read_ids
    \*      when it arrived and have a topic; the <<minStars, endCursor>>
    \*      pairs the remote has answered with
    window_raw, delivered, readme_calls, page_due, issued,
    \* ---- a call of a pure function on its own: its argument and its result
    arg, ret

vars == <<pc, raised, i, saved,
          total_read, reset_counter, read_ids,
          repos_data, more_than_stars, next_cursor, gql,
          last_stargazers_count, repos_data_part, parsed_cursor, enhanced,
          retry_num, attempts, response, sleeps, result, remote,
          window_raw, delivered, readme_calls, page_due, issued, arg, ret>>

runVars == <<i, saved>>
fetcherVars == <<total_read, reset_counter, read_ids>>
callVars == <<repos_data, more_than_stars, next_cursor, gql>>
pageVars == <<last_stargazers_count, repos_data_part, parsed_cursor, enhanced>>
httpVars == <<retry_num, attempts, response, sleeps, result>>
histVars == <<window_raw, delivered, readme_calls, page_due, issued>>
pureVars == <<arg, ret>>

(***************************************************************************)
(* Program constants.  PAGE_SIZE and MAX_ITEMS_PER_QUERY are scaled down    *)
(* (the code has 100 and 1000), and so are run's data_size_max and         *)
(* chunk_size (500000 and 3000): the code only compares, adds and          *)
(* subtracts them, so the scaled values take the same branches, with pages *)
(* of two records and a window of two full pages.                          *)
(***************************************************************************)
PAGE_SIZE == 2
MAX_ITEMS_PER_QUERY == 4
data_size_max == 2
chunk_size == 1
start_from_stars_0 == 300
retries_limit == 5

\* Attempts of one logical call the model follows (the code sets no bound):
\* in the transport's own specification, and inside a run.
MaxAttempts == 6
MaxRunAttempts == 2

None == <<>>
Str(x) == IF x = None THEN "None" ELSE x[1]
Quote(x) == <<"\"", Str(x), "\"">>
NullCursor == <<"null">>

\* math.ceil(a / b) for positive integers
Ceil(a, b) == (a + b - 1) \div b
chunks_max == Ceil(data_size_max, chunk_size)

Last(s) == s[Len(s)]
Range(s) == {s[n] : n \in 1..Len(s)}

(***************************************************************************)
(* Transport (src/github.py)                                               *)
(***************************************************************************)
RATE_REMAINING == "X-RateLimit-Remaining"
RATE_RESET == "X-RateLimit-Reset"
NoHeaders == [h \in {} |-> 0]

\* round(x) of Python 3 for x = d2 / 2: halves go to the even neighbour.
Round2(d2) ==
    LET q == d2 \div 2
    IN  IF d2 % 2 = 0 THEN q
        ELSE IF q % 2 = 0 THEN q ELSE q + 1

\* A sleep made in one piece.
sleep_unchunked(sleep_for_seconds) ==
    IF sleep_for_seconds > 0 THEN <<sleep_for_seconds>> ELSE <<>>

\* sleep(sleep_for_seconds): the durations of the time.sleep calls it makes.
RECURSIVE sleep(_)
sleep(sleep_for_seconds) ==
    IF sleep_for_seconds > 500
    THEN <<500>> \o sleep(sleep_for_seconds - 500)
    ELSE IF sleep_for_seconds > 0 THEN <<sleep_for_seconds>> ELSE <<>>

has_errors(resp) == resp.status_code >= 400

\* response.headers[name]: a missing name raises KeyError (see handle_response_errors).
HasHeader(resp, name) == name \in DOMAIN resp.headers

is_rate_limited(resp) ==
    LET remaining_requests == resp.headers[RATE_REMAINING]
    IN  IF remaining_requests > 0 THEN FALSE ELSE TRUE

\* The header holds 2 * (reset_timestamp - time.time()), in half seconds.
calculate_rate_limit_sleep_time(resp) == Round2(resp.headers[RATE_RESET])

Returns(should_retry, slept) ==
    [raises |-> "", should_retry |-> should_retry, sleeps |-> slept]
Raises(exc) == [raises |-> exc, should_retry |-> FALSE, sleeps |-> <<>>]

WaitOrDefault(wait_time_seconds) ==
    IF wait_time_seconds > 0 THEN wait_time_seconds ELSE 10

\* A transport without the 404 branch: 404 is waited on and retried.
handle_response_errors_404_retried(resp) ==
    LET status_code == resp.status_code
    IN  IF status_code = 401 THEN Raises("RuntimeError")
        ELSE IF status_code = 403 THEN
            IF ~HasHeader(resp, RATE_REMAINING) THEN Raises("KeyError")
            ELSE IF is_rate_limited(resp) THEN
                IF ~HasHeader(resp, RATE_RESET) THEN Raises("KeyError")
                ELSE Returns(TRUE,
                        sleep(WaitOrDefault(calculate_rate_limit_sleep_time(resp))))
            ELSE Returns(FALSE, <<>>)
        ELSE Returns(TRUE, sleep(WaitOrDefault(10)))

\* A transport without the 401 branch: 401 is waited on like any other status.
handle_response_errors_401_retried(resp) ==
    LET status_code == resp.status_code
    IN  IF status_code = 404 THEN Returns(FALSE, <<>>)
        ELSE IF status_code = 403 THEN
            IF ~HasHeader(resp, RATE_REMAINING) THEN Raises("KeyError")
            ELSE IF is_rate_limited(resp) THEN
                IF ~HasHeader(resp, RATE_RESET) THEN Raises("KeyError")
                ELSE Returns(TRUE,
                        sleep(WaitOrDefault(calculate_rate_limit_sleep_time(resp))))
            ELSE Returns(FALSE, <<>>)
        ELSE Returns(TRUE, sleep(WaitOrDefault(10)))

handle_response_errors(resp) ==
    LET status_code == resp.status_code
    IN  IF status_code = 404 THEN Returns(FALSE, <<>>)
        ELSE IF status_code = 401 THEN Raises("RuntimeError")
        ELSE IF status_code = 403 THEN
            IF ~HasHeader(resp, RATE_REMAINING) THEN Raises("KeyError")
            ELSE IF is_rate_limited(resp) THEN
                IF ~HasHeader(resp, RATE_RESET) THEN Raises("KeyError")
                ELSE Returns(TRUE,
                        sleep(WaitOrDefault(calculate_rate_limit_sleep_time(resp))))
            ELSE Returns(FALSE, <<>>)
        ELSE Returns(TRUE, sleep(WaitOrDefault(10)))

\* ++retry_num: Python has no increment operator; this is +(+retry_num).
UnaryPlus(n) == n
PreIncrement(n) == UnaryPlus(UnaryPlus(n))

\* _do_retry: "retry" with the number the next _with_session gets, or None.
do_retry(n, should_retry) ==
    IF should_retry /\ n <= retries_limit
    THEN [retry |-> TRUE, retry_num |-> PreIncrement(n)]
    ELSE [retry |-> FALSE, retry_num |-> n]

(***************************************************************************)
(* One attempt of _with_session: what the attempt's outcome leads to.      *)
(*   kind "retry": the request is issued again; "return": the logical call *)
(*   returns body (None for no result); "raise": an exception propagates.  *)
(***************************************************************************)
with_session(resp, n) ==
    IF resp.exc \in {"TimeoutError", "ConnectionError"}
    THEN LET r == do_retry(n, TRUE)
         IN  [kind |-> IF r.retry THEN "retry" ELSE "return", body |-> None,
              raises |-> "", sleeps |-> <<10>>, retry_num |-> r.retry_num]
    ELSE IF has_errors(resp)
    THEN LET h == handle_response_errors(resp)
             r == do_retry(n, h.should_retry)
         IN  IF h.raises # ""
             THEN [kind |-> "raise", body |-> None, raises |-> h.raises,
                   sleeps |-> h.sleeps, retry_num |-> n]
             ELSE [kind |-> IF r.retry THEN "retry" ELSE "return", body |-> None,
                   raises |-> "", sleeps |-> h.sleeps, retry_num |-> r.retry_num]
    ELSE [kind |-> "return", body |-> resp.body, raises |-> "",
          sleeps |-> <<>>, retry_num |-> n]

(***************************************************************************)
(* What the remote may answer.                                             *)
(***************************************************************************)
\* A repository node of a search page: its id, stargazerCount and the names
\* of its topics (the fields the controller reads; name, url, languages,
\* ... are carried along untouched by the code and left out).
Node(id, stars, topics) ==
    [id |-> id, stargazerCount |-> stars, repositoryTopics |-> topics]

\* Two repositories, each listed with or without topics.  R1 has exactly
\* the initial threshold's stars: a remote that lists it is one whose star
\* counts moved between two queries (overlapping windows, plateaus).
Nodes == { Node("R1", 300, <<"t">>), Node("R1", 300, <<>>),
           Node("R2", 301, <<"t">>), Node("R2", 301, <<>>) }

RECURSIVE SeqsUpTo(_, _)
SeqsUpTo(S, n) ==
    IF n = 0 THEN {<<>>}
    ELSE LET shorter == SeqsUpTo(S, n - 1)
         IN  shorter \cup {Append(q, x) : q \in {t \in shorter : Len(t) = n - 1}, x \in S}

\* Raw pages: at most PAGE_SIZE edges, in any order, repetitions included.
Pages == SeqsUpTo(Nodes, PAGE_SIZE)

Cursors == { <<"c1">>, <<"c2">> }

GqlBody(shape, e, s, c) ==
    [shape |-> shape, edges |-> e, startCursor |-> s, endCursor |-> c]

\* Bodies of a 200 answer to the GraphQL query: a page, "data": null, or a
\* body without "data" (errors only).
GqlBodies ==
    {GqlBody("ok", e, s, <<"c2">>) : e \in Pages \ {<<>>}, s \in Cursors}
    \cup {GqlBody("ok", <<>>, None, None), GqlBody("data_null", <<>>, None, None),
          GqlBody("data_missing", <<>>, None, None)}

\* Bodies of a 200 answer to GET repos/{name}/readme.
ReadmeBody(has_content, content) == [has_content |-> has_content, content |-> content]
ReadmeBodies ==
    { ReadmeBody(TRUE, <<"aGk=">>), ReadmeBody(TRUE, <<"">>), ReadmeBody(FALSE, None) }

\* X-RateLimit-Reset minus the clock, in half seconds: -1 s, 0.5 s, 1.5 s,
\* 5 s and 501 s.
ResetDeltas2 == {-2, 1, 3, 10, 1002}

Resp(status, headers, body) ==
    [status_code |-> status, exc |-> "", headers |-> headers, body |-> body]
Exc(name) == [status_code |-> 0, exc |-> name, headers |-> NoHeaders, body |-> None]
NoResponse == Exc("")

ForbiddenHeaders ==
    {NoHeaders, (RATE_REMAINING :> 1), (RATE_REMAINING :> 0)}
    \cup {(RATE_REMAINING :> 0) @@ (RATE_RESET :> d) : d \in ResetDeltas2}

\* Outcomes of one HTTP attempt other than a 2xx answer: inside a run, one
\* of each way the transport ends an attempt (raise, no result, retry); in
\* the transport's own specification, all of them.
RunFailures ==
    {Resp(401, NoHeaders, None), Resp(404, NoHeaders, None), Resp(500, NoHeaders, None)}
Failures ==
    RunFailures
    \cup {Resp(403, h, None) : h \in ForbiddenHeaders}
    \cup {Exc("TimeoutError"), Exc("ConnectionError")}

Info(resp) == [resp EXCEPT !.body = None]

(***************************************************************************)
(* Result parser and README decoding (pure)                                *)
(***************************************************************************)
Zero == <<"0">>

ParseNode(repo_data) ==
    [id |-> repo_data.id,
     stargazers_count |-> repo_data.stargazerCount,
     topics |-> repo_data.repositoryTopics]

\* The body shapes: "ok" has data.search.edges and pageInfo; "data_null" is
\* {"data": null}; "data_missing" has no "data" key (result['data'] raises).
parse_gql_result(res) ==
    IF res = None THEN [raises |-> "", data |-> <<>>, cursor |-> Zero]
    ELSE IF res.shape = "data_missing"
    THEN [raises |-> "KeyError", data |-> <<>>, cursor |-> None]
    ELSE IF res.shape # "ok" \/ Len(res.edges) = 0
    THEN [raises |-> "", data |-> <<>>, cursor |-> Zero]
    ELSE [raises |-> "",
          data |-> [n \in 1..Len(res.edges) |-> ParseNode(res.edges[n])],
          cursor |-> IF res.startCursor # res.endCursor THEN res.endCursor ELSE None]

\* base64.b64decode(content).decode("utf-8") on the contents the remote sends
B64Decode(text) == IF text = "aGk=" THEN "hi" ELSE "?"

\* get_readme on what the transport returned: the README text, None, or raise.
get_readme(data) ==
    IF data = None THEN [raises |-> "", readme |-> None]
    ELSE IF ~data.has_content THEN [raises |-> "KeyError", readme |-> None]
    ELSE IF data.content # None /\ Str(data.content) # ""
         THEN [raises |-> "", readme |-> <<B64Decode(Str(data.content))>>]
         ELSE [raises |-> "", readme |-> None]

gql_format(stars, first, after) == [stars |-> stars, first |-> first, after |-> after]

Ids(repos) == [n \in 1..Len(repos) |-> repos[n].id]

\* line 128: keep the records whose id is not in read_ids
NotYetRead(part, ids) == SelectSeq(part, LAMBDA repo : repo.id \notin Range(ids))
\* Enrichment of every unseen record, topics or not.
WithTopicsKeepAll(part) == part
\* line 135
WithTopics(part) == SelectSeq(part, LAMBDA repo : Len(repo.topics) > 0)
\* lines 107 and 139: attach the READMEs, keep the records that have one
WithReadme(part, readmes) ==
    SelectSeq([n \in 1..Len(part) |->
                  [id |-> part[n].id, stargazers_count |-> part[n].stargazers_count,
                   topics |-> part[n].topics, readme |-> readmes[n]]],
              LAMBDA repo : repo.readme # None)

\* History: the records of a raw page whose id is not in ids and that have
\* a topic, counted on the page as it arrived.
Due(part, ids) ==
    Cardinality({n \in 1..Len(part) :
                    part[n].id \notin Range(ids) /\ Len(part[n].topics) > 0})

\* A threshold that a reset leaves where it was.
AdvanceStarsStuck(stars, last) == stars
\* A reset that takes the last star count even on a plateau.
AdvanceStarsNoPlateau(stars, last) == last
\* line 145
AdvanceStars(stars, last) == IF stars # last THEN last ELSE stars + 1

\* A window that expires only on reaching zero exactly.
ResetDueOnZero(counter) == counter = 0
\* A window that expires one record late.
ResetDueLate(counter) == counter < 0
\* line 142
ResetDue(counter) == counter <= 0

(***************************************************************************)
(* State machine                                                           *)
(***************************************************************************)
ClearPage ==
    /\ last_stargazers_count' = 0
    /\ repos_data_part' = <<>>
    /\ parsed_cursor' = None
    /\ enhanced' = <<>>

\* post / get: a new logical call, _with_session(function, retry_num = 0)
SendRequest(kind) ==
    /\ pc' = kind
    /\ retry_num' = 0
    /\ attempts' = 0
    /\ response' = NoResponse
    /\ sleeps' = <<>>
    /\ result' = None

Init ==
    /\ pc = "run"
    /\ raised = ""
    /\ i = 0
    /\ saved = <<>>
    /\ total_read = 0
    /\ reset_counter = MAX_ITEMS_PER_QUERY
    /\ read_ids = <<>>
    /\ repos_data = <<>>
    /\ more_than_stars = start_from_stars_0
    /\ next_cursor = NullCursor
    /\ gql = gql_format(start_from_stars_0, PAGE_SIZE, NullCursor)
    /\ last_stargazers_count = 0
    /\ repos_data_part = <<>>
    /\ parsed_cursor = None
    /\ enhanced = <<>>
    /\ retry_num = 0
    /\ attempts = 0
    /\ response = NoResponse
    /\ sleeps = <<>>
    /\ result = None
    /\ remote = <<>>
    /\ window_raw = 0
    /\ delivered = {}
    /\ readme_calls = 0
    /\ page_due = 0
    /\ issued = {}
    /\ arg = None
    /\ ret = None

\* run, line 197 and read_repos_data, lines 110-119: the call and its first query
StartChunk ==
    /\ pc = "run"
    /\ repos_data' = <<>>
    /\ gql' = gql_format(more_than_stars, PAGE_SIZE,
                         IF next_cursor # None THEN next_cursor ELSE NullCursor)
    /\ SendRequest("graphql")
    /\ UNCHANGED <<raised, runVars, fetcherVars, more_than_stars, next_cursor,
                   pageVars, remote, histVars, pureVars>>

\* One HTTP attempt of the call in flight is answered by resp.
Attempt(resp, cap) ==
    /\ pc \in {"graphql", "readme"}
    /\ attempts < cap
    /\ LET w == with_session(resp, retry_num)
       IN  /\ attempts' = attempts + 1
           /\ response' = Info(resp)
           /\ sleeps' = w.sleeps
           /\ retry_num' = w.retry_num
           /\ result' = w.body
           /\ pc' = IF w.kind = "retry" THEN pc
                    ELSE IF w.kind = "raise" THEN "raised"
                    ELSE IF pc = "graphql" THEN "graphql_ret" ELSE "readme_ret"
           /\ raised' = w.raises
    /\ UNCHANGED <<runVars, fetcherVars, callVars, pageVars, remote, histVars,
                   pureVars>>

\* run, lines 198-206, on what read_repos_data returned
ReturnToRun(rd, nc) ==
    /\ IF Len(rd) = 0
       THEN /\ pc' = "done_empty"
            /\ UNCHANGED <<i, saved>>
       ELSE /\ saved' = Append(saved, rd)
            /\ IF nc = None
               THEN /\ pc' = "done_cursor"
                    /\ i' = i
               ELSE /\ i' = i + 1
                    /\ pc' = IF i + 1 < chunks_max THEN "run" ELSE "done_max"
    /\ UNCHANGED httpVars

\* read_repos_data, lines 139-154, with the page's enriched records: the
\* README filter, the reset policy, the next query or the return to run.
FinishPage(rc, part, readmes, last, cursor) ==
    LET rd == repos_data \o WithReadme(part, readmes)
        reset == ResetDue(rc)
        stop == ~reset /\ next_cursor = None
        stars == IF reset THEN AdvanceStars(more_than_stars, last) ELSE more_than_stars
        nc == IF reset THEN NullCursor
              ELSE IF next_cursor # None THEN Quote(cursor) ELSE next_cursor
    IN  /\ reset_counter' = IF reset THEN MAX_ITEMS_PER_QUERY ELSE rc
        /\ repos_data' = rd
        /\ more_than_stars' = stars
        /\ next_cursor' = nc
        /\ gql' = IF stop THEN gql ELSE gql_format(stars, PAGE_SIZE, nc)
        /\ ClearPage
        /\ readme_calls' = 0
        /\ page_due' = 0
        /\ IF ~stop /\ Len(rd) < chunk_size
           THEN SendRequest("graphql") /\ UNCHANGED runVars
           ELSE ReturnToRun(rd, nc)

\* read_repos_data, lines 120-136, on the result of the GraphQL call
ContinueGraphql ==
    /\ pc = "graphql_ret"
    /\ LET parsed == parse_gql_result(result)
           part == parsed.data
       IN  IF parsed.raises # ""
           THEN /\ pc' = "raised"
                /\ raised' = parsed.raises
                /\ UNCHANGED <<runVars, fetcherVars, callVars, pageVars, httpVars,
                               histVars>>
           ELSE IF Len(part) = 0
           THEN /\ ReturnToRun(repos_data, next_cursor)
                /\ UNCHANGED <<raised, fetcherVars, callVars, pageVars, histVars>>
           ELSE LET rc == reset_counter - Len(part)
                    last == Last(part).stargazers_count
                    unique == NotYetRead(part, read_ids)
                    topical == WithTopics(unique)
                IN  /\ read_ids' = read_ids \o Ids(unique)
                    /\ total_read' = total_read + Len(unique)
                    /\ window_raw' = Len(part)
                          + (IF gql.after = NullCursor THEN 0 ELSE window_raw)
                    /\ delivered' = delivered \cup Range(Ids(part))
                    /\ issued' = issued \cup {<<gql.stars, result.endCursor>>}
                    /\ raised' = raised
                    /\ IF Len(topical) > 0
                       THEN /\ reset_counter' = rc
                            /\ last_stargazers_count' = last
                            /\ repos_data_part' = topical
                            /\ parsed_cursor' = parsed.cursor
                            /\ enhanced' = <<>>
                            /\ readme_calls' = 1
                            /\ page_due' = Due(part, read_ids)
                            /\ SendRequest("readme")
                            /\ UNCHANGED <<runVars, callVars>>
                       ELSE FinishPage(rc, <<>>, <<>>, last, parsed.cursor)
    /\ UNCHANGED <<remote, pureVars>>

\* _enhance_repos_with_readme, lines 105-107, on the result of one README call
ContinueReadme ==
    /\ pc = "readme_ret"
    /\ LET r == get_readme(result)
           readmes == Append(enhanced, r.readme)
       IN  IF r.raises # ""
           THEN /\ pc' = "raised"
                /\ raised' = r.raises
                /\ UNCHANGED <<runVars, fetcherVars, callVars, pageVars, httpVars,
                               readme_calls, page_due>>
           ELSE /\ raised' = raised
                /\ IF Len(readmes) < Len(repos_data_part)
                   THEN /\ enhanced' = readmes
                        /\ readme_calls' = readme_calls + 1
                        /\ page_due' = page_due
                        /\ SendRequest("readme")
                        /\ UNCHANGED <<runVars, fetcherVars, callVars,
                                       last_stargazers_count, repos_data_part,
                                       parsed_cursor>>
                   ELSE /\ FinishPage(reset_counter, repos_data_part, readmes,
                                      last_stargazers_count, parsed_cursor)
                        /\ UNCHANGED <<total_read, read_ids>>
    /\ UNCHANGED <<remote, window_raw, delivered, issued, pureVars>>

\* The remote answers the request in flight with anything at all.
Answers == IF pc = "graphql" THEN {Resp(200, NoHeaders, b) : b \in GqlBodies}
           ELSE {Resp(200, NoHeaders, b) : b \in ReadmeBodies}

Receive == \E resp \in Answers \cup RunFailures : Attempt(resp, MaxRunAttempts)

Next == StartChunk \/ Receive \/ ContinueGraphql \/ ContinueReadme

Spec == Init /\ [][Next]_vars

Done == pc \in {"done_empty", "done_cursor", "done_max"}
\* read_repos_data has returned: repos_data, next_cursor and more_than_stars
\* hold what it returned
Returned == (pc = "run" /\ i > 0) \/ Done

(***************************************************************************)
(* The transport alone: one logical call (the first GraphQL query of a     *)
(* run, or the README fetch of the first record of its first page) and     *)
(* every outcome of each of its attempts.                                  *)
(***************************************************************************)
FirstRecord == ParseNode(Node("R2", 301, <<"t">>))

InitTransport ==
    /\ pc \in {"graphql", "readme"}
    /\ raised = ""
    /\ i = 0
    /\ saved = <<>>
    /\ repos_data = <<>>
    /\ more_than_stars = start_from_stars_0
    /\ next_cursor = NullCursor
    /\ gql = gql_format(start_from_stars_0, PAGE_SIZE, NullCursor)
    /\ parsed_cursor = None
    /\ enhanced = <<>>
    /\ retry_num = 0
    /\ attempts = 0
    /\ response = NoResponse
    /\ sleeps = <<>>
    /\ result = None
    /\ remote = <<>>
    /\ arg = None
    /\ ret = None
    /\ IF pc = "graphql"
       THEN /\ total_read = 0
            /\ reset_counter = MAX_ITEMS_PER_QUERY
            /\ read_ids = <<>>
            /\ last_stargazers_count = 0
            /\ repos_data_part = <<>>
            /\ window_raw = 0
            /\ delivered = {}
            /\ readme_calls = 0
            /\ page_due = 0
            /\ issued = {}
       ELSE /\ total_read = 1
            /\ reset_counter = MAX_ITEMS_PER_QUERY - 1
            /\ read_ids = <<FirstRecord.id>>
            /\ last_stargazers_count = FirstRecord.stargazers_count
            /\ repos_data_part = <<FirstRecord>>
            /\ window_raw = 1
            /\ delivered = {FirstRecord.id}
            /\ readme_calls = 1
            /\ page_due = 1
            /\ issued = {<<start_from_stars_0, <<"c2">>>>}

ReceiveAny == \E resp \in Answers \cup Failures : Attempt(resp, MaxAttempts)

NextTransport == ReceiveAny

SpecTransport == InitTransport /\ [][NextTransport]_vars

(***************************************************************************)
(* A run against a remote that serves a fixed result set faithfully:       *)
(* ascending by stars, pages of at most `first` records, each cursor       *)
(* continuing where the previous page ended, no transport failure (a       *)
(* repository without README answers 404).                                 *)
(***************************************************************************)
MaxRemote == 5
RepoNames == <<"F1", "F2", "F3", "F4", "F5", "F6", "F7", "F8">>
CursorNames == <<"c1", "c2", "c3", "c4", "c5", "c6", "c7", "c8">>
FaithfulStars == {300, 301, 302}

FaithfulRemotes ==
    UNION { { [k \in 1..n |-> Node(RepoNames[k], f[k], <<"t">>)] :
                f \in { g \in [1..n -> FaithfulStars] :
                          \A a, b \in 1..n : a <= b => g[a] <= g[b] } } :
            n \in 0..MaxRemote }

Min(a, b) == IF a <= b THEN a ELSE b

\* The cursor of the k-th record of a result set
CursorAt(k) == <<CursorNames[k]>>

\* The 200 answer of the remote to the query q
FaithfulBody(q) ==
    LET matching == SelectSeq(remote, LAMBDA node : node.stargazerCount > q.stars)
        known == {k \in 1..Len(CursorNames) : q.after = Quote(CursorAt(k))}
    IN  IF q.after # NullCursor /\ known = {}
        THEN GqlBody("data_null", <<>>, None, None)
        ELSE LET offset == IF q.after = NullCursor THEN 0 ELSE CHOOSE k \in known : TRUE
                 upto == Min(offset + q.first, Len(matching))
                 edges == SubSeq(matching, offset + 1, upto)
             IN  IF edges = <<>> THEN GqlBody("ok", <<>>, None, None)
                 ELSE GqlBody("ok", edges, CursorAt(offset + 1), CursorAt(upto))

FaithfulAnswers ==
    IF pc = "graphql" THEN {Resp(200, NoHeaders, FaithfulBody(gql))}
    ELSE {Resp(200, NoHeaders, ReadmeBody(TRUE, <<"aGk=">>)), Resp(404, NoHeaders, None)}

InitFaithful ==
    /\ pc = "run"
    /\ raised = ""
    /\ i = 0
    /\ saved = <<>>
    /\ total_read = 0
    /\ reset_counter = MAX_ITEMS_PER_QUERY
    /\ read_ids = <<>>
    /\ repos_data = <<>>
    /\ more_than_stars = start_from_stars_0
    /\ next_cursor = NullCursor
    /\ gql = gql_format(start_from_stars_0, PAGE_SIZE, NullCursor)
    /\ last_stargazers_count = 0
    /\ repos_data_part = <<>>
    /\ parsed_cursor = None
    /\ enhanced = <<>>
    /\ retry_num = 0
    /\ attempts = 0
    /\ response = NoResponse
    /\ sleeps = <<>>
    /\ result = None
    /\ remote \in FaithfulRemotes
    /\ window_raw = 0
    /\ delivered = {}
    /\ readme_calls = 0
    /\ page_due = 0
    /\ issued = {}
    /\ arg = None
    /\ ret = None

ReceiveFaithful == \E resp \in FaithfulAnswers : Attempt(resp, MaxRunAttempts)

NextFaithful == StartChunk \/ ReceiveFaithful \/ ContinueGraphql \/ ContinueReadme

SpecFaithful == InitFaithful /\ [][NextFaithful]_vars

\* The same run when every step that can be taken eventually is: each
\* transport call returns and the loops go on.
SpecFaithfulFair == SpecFaithful /\ WF_vars(NextFaithful)

(***************************************************************************)
(* The pure functions on their own: sleep on a requested wait in whole     *)
(* seconds, parse_gql_result on a response body.                           *)
(***************************************************************************)
MaxSleep == 1503
SleepArgs == -3..MaxSleep

\* None, {"data": null}, a body without "data", and every page with every
\* pair of pageInfo cursors
ParseArgs ==
    {None, GqlBody("data_null", <<>>, None, None),
     GqlBody("data_missing", <<>>, None, None)}
    \cup {GqlBody("ok", e, s, c) :
             e \in Pages, s \in Cursors \cup {None}, c \in Cursors \cup {None}}

InitPure ==
    /\ \/ pc = "sleep" /\ arg \in SleepArgs
       \/ pc = "parse" /\ arg \in ParseArgs
    /\ ret = None
    /\ raised = ""
    /\ i = 0
    /\ saved = <<>>
    /\ total_read = 0
    /\ reset_counter = MAX_ITEMS_PER_QUERY
    /\ read_ids = <<>>
    /\ repos_data = <<>>
    /\ more_than_stars = start_from_stars_0
    /\ next_cursor = NullCursor
    /\ gql = gql_format(start_from_stars_0, PAGE_SIZE, NullCursor)
    /\ last_stargazers_count = 0
    /\ repos_data_part = <<>>
    /\ parsed_cursor = None
    /\ enhanced = <<>>
    /\ retry_num = 0
    /\ attempts = 0
    /\ response = NoResponse
    /\ sleeps = <<>>
    /\ result = None
    /\ remote = <<>>
    /\ window_raw = 0
    /\ delivered = {}
    /\ readme_calls = 0
    /\ page_due = 0
    /\ issued = {}

CallSleep ==
    /\ pc = "sleep"
    /\ ret' = sleep(arg)
    /\ pc' = "slept"
    /\ UNCHANGED <<raised, runVars, fetcherVars, callVars, pageVars, httpVars,
                   remote, histVars, arg>>

CallParse ==
    /\ pc = "parse"
    /\ ret' = parse_gql_result(arg)
    /\ pc' = "parsed"
    /\ UNCHANGED <<raised, runVars, fetcherVars, callVars, pageVars, httpVars,
                   remote, histVars, arg>>

NextPure == CallSleep \/ CallParse

SpecPure == InitPure /\ [][NextPure]_vars

(***************************************************************************)
(* Properties                                                              *)
(***************************************************************************)
RECURSIVE Flatten(_)
Flatten(chunks) ==
    IF chunks = <<>> THEN <<>> ELSE Flatten(SubSeq(chunks, 1, Len(chunks) - 1)) \o Last(chunks)

RECURSIVE Sum(_)
Sum(q) == IF q = <<>> THEN 0 ELSE Sum(SubSeq(q, 1, Len(q) - 1)) + Last(q)

NoDuplicates(q) == \A a, b \in 1..Len(q) : a # b => q[a] # q[b]

\* The identifiers of all records returned so far, with those of the chunk
\* being accumulated
Emitted == Ids(Flatten(saved) \o (IF Returned THEN <<>> ELSE repos_data))

\* The next step ends an iteration of the page loop: the page just parsed
\* needs no README, or the last README of the page has just been fetched.
GqlParsed == parse_gql_result(result)
PageEnds ==
    \/ /\ pc = "graphql_ret"
       /\ Len(GqlParsed.data) > 0
       /\ Len(WithTopics(NotYetRead(GqlParsed.data, read_ids))) = 0
    \/ /\ pc = "readme_ret"
       /\ get_readme(result).raises = ""
       /\ Len(enhanced) + 1 = Len(repos_data_part)
\* The reset counter, the last star count and the parsed cursor of that page
PageCounter ==
    IF pc = "graphql_ret" THEN reset_counter - Len(GqlParsed.data) ELSE reset_counter
PageLast ==
    IF pc = "graphql_ret" THEN Last(GqlParsed.data).stargazers_count
    ELSE last_stargazers_count
PageCursor == IF pc = "graphql_ret" THEN GqlParsed.cursor ELSE parsed_cursor

\* The step answers one HTTP attempt.
AttemptStep == attempts' = attempts + 1

\* C1: served faithfully, every repository with more stars than the initial
\* threshold has been delivered in some raw page by the time the run stops
\* on an empty page.
C1_NoSilentSkip ==
    pc = "done_empty" =>
        \A n \in 1..Len(remote) :
            remote[n].stargazerCount > start_from_stars_0 => remote[n].id \in delivered

\* C2: no identifier occurs twice in the returned chunks, nor in read_ids,
\* whatever the pages hold.
C2_IdentifierUniqueness == NoDuplicates(Emitted) /\ NoDuplicates(read_ids)

\* C3: a logical call makes at most retries_limit HTTP attempts, and when
\* the last of them fails with a retryable outcome it returns None.
RetryableOutcome(resp) ==
    \/ resp.exc \in {"TimeoutError", "ConnectionError"}
    \/ resp.status_code >= 400 /\ resp.status_code \notin {401, 403, 404}
    \/ /\ resp.status_code = 403
       /\ HasHeader(resp, RATE_REMAINING) /\ HasHeader(resp, RATE_RESET)
       /\ resp.headers[RATE_REMAINING] = 0
C3_BoundedRetry ==
    /\ attempts <= retries_limit
    /\ attempts = retries_limit /\ RetryableOutcome(response)
         => pc \in {"graphql_ret", "readme_ret"} /\ result = None

\* C4: a terminal page (parsed cursor None) met while the current cursor is
\* set and the window has not expired ends the call: no further query, and
\* the cursor returned is None.
C4_TerminalPageStops ==
    [][ PageEnds /\ PageCursor = None /\ next_cursor # None /\ PageCounter > 0
          => pc' # "graphql" /\ next_cursor' = None ]_vars

\* C5: read_repos_data never returns more than chunk_size records, and a
\* full chunk comes with a continuation cursor.
C5_ExactChunkSize ==
    Returned => /\ Len(repos_data) <= chunk_size
                /\ Len(repos_data) = chunk_size => next_cursor # None

\* C6: when the raw records received since the last query sent with the
\* start cursor reach MAX_ITEMS_PER_QUERY, in one call or over several, the
\* page ends with the counter back at MAX_ITEMS_PER_QUERY, the start cursor
\* and another threshold, and the next query sent carries them; below
\* MAX_ITEMS_PER_QUERY nothing is reset.
C6_ResetTrigger ==
    [][ /\ PageEnds =>
            IF window_raw' >= MAX_ITEMS_PER_QUERY
            THEN /\ reset_counter' = MAX_ITEMS_PER_QUERY
                 /\ next_cursor' = NullCursor
                 /\ more_than_stars' # more_than_stars
                 /\ pc' = "graphql" =>
                        gql' = [stars |-> more_than_stars', first |-> PAGE_SIZE,
                                after |-> NullCursor]
            ELSE /\ reset_counter' = MAX_ITEMS_PER_QUERY - window_raw'
                 /\ next_cursor' # NullCursor
                 /\ more_than_stars' = more_than_stars
        /\ pc = "run" =>
            /\ pc' = "graphql"
            /\ gql' = [stars |-> more_than_stars, first |-> PAGE_SIZE,
                       after |-> next_cursor]
            /\ UNCHANGED <<reset_counter, next_cursor, more_than_stars>> ]_vars
C6_Witness ==
    /\ pc = "graphql" /\ attempts = 0
    /\ i = 1
    /\ window_raw = MAX_ITEMS_PER_QUERY
    /\ reset_counter = MAX_ITEMS_PER_QUERY
    /\ gql.after = NullCursor
    /\ gql.stars # start_from_stars_0

\* C7: at a reset the threshold becomes the last star count of the page, or
\* the threshold plus one when the two are equal; when that last star count
\* is not below the threshold the new threshold is strictly greater, and the
\* query of the new window differs from the first query of the old one.
C7_ThresholdAdvance ==
    [][ PageEnds /\ PageCounter <= 0 =>
          /\ more_than_stars' = IF PageLast = more_than_stars
                                THEN more_than_stars + 1 ELSE PageLast
          /\ PageLast >= more_than_stars => more_than_stars' > more_than_stars
          /\ gql'.stars = more_than_stars' /\ gql'.after = NullCursor
          /\ gql' # [stars |-> more_than_stars, first |-> PAGE_SIZE,
                     after |-> NullCursor] ]_vars
\* a reset on a plateau: only R1, whose stars equal the initial threshold,
\* was ever listed
C7_Witness ==
    /\ delivered = {"R1"}
    /\ window_raw >= MAX_ITEMS_PER_QUERY
    /\ more_than_stars = start_from_stars_0 + 1
    /\ next_cursor = NullCursor
    /\ pc = "graphql"

\* C8: an attempt answered 401 makes no sleep and no retry and raises; once
\* an exception has been raised nothing happens any more.
C8_UnauthorizedIsFatal ==
    [][ /\ pc # "raised"
        /\ AttemptStep /\ response'.status_code = 401 =>
              /\ sleeps' = <<>>
              /\ pc' = "raised" /\ raised' = "RuntimeError"
              /\ UNCHANGED <<runVars, fetcherVars, callVars>> ]_vars
\* a README fetch answered 401 on its second attempt
C8_Witness ==
    /\ pc = "raised" /\ raised = "RuntimeError"
    /\ response.status_code = 401
    /\ attempts = 2
    /\ Len(repos_data_part) > 0

\* C9: a 403 with X-RateLimit-Remaining = 0 is slept on (for the whole
\* seconds until X-RateLimit-Reset when that lies ahead, for 10 s when it
\* does not or the header is missing) and the request is issued again.
C9_RateLimitWait ==
    /\ response.status_code = 403
    /\ HasHeader(response, RATE_REMAINING)
    /\ response.headers[RATE_REMAINING] = 0
    => /\ pc \in {"graphql", "readme"} /\ raised = ""
       /\ LET missing == ~HasHeader(response, RATE_RESET)
              d2 == IF missing THEN 0 ELSE response.headers[RATE_RESET]
          IN  d2 % 2 = 0 => Sum(sleeps) = IF d2 > 0 THEN d2 \div 2 ELSE 10

\* C10: each page makes read_ids grow, at its end, by as many entries as the
\* page holds identifiers not seen before; read_ids never shrinks and
\* total_read is its length.
C10_CrossPageDedup ==
    [][ /\ total_read = Len(read_ids) /\ total_read' = Len(read_ids')
        /\ Len(read_ids') >= Len(read_ids)
        /\ SubSeq(read_ids', 1, Len(read_ids)) = read_ids
        /\ pc = "graphql_ret" =>
             Len(read_ids') - Len(read_ids)
               = Cardinality(Range(Ids(GqlParsed.data)) \ Range(read_ids)) ]_vars

\* C14: sleep(n) makes underlying sleeps of at most 500 seconds each that
\* sum to n when n > 0, and none when n <= 0.
C14_ChunkedSleep ==
    pc = "slept" =>
        IF arg > 0
        THEN /\ Sum(ret) = arg
             /\ \A k \in 1..Len(ret) : ret[k] > 0 /\ ret[k] <= 500
        ELSE ret = <<>>
\* a wait of more than 1000 seconds, made in three sleeps
C14_Witness == pc = "slept" /\ arg > 1000 /\ Len(ret) = 3

\* C15: parse_gql_result returns the cursor None for every page whose
\* startCursor equals its endCursor, whatever its edges, and endCursor for a
\* page with an edge and differing cursors.
C15_ParserTerminalSignal ==
    pc = "parsed" /\ arg # None /\ arg.shape = "ok" =>
        /\ arg.startCursor = arg.endCursor => ret.cursor = None
        /\ arg.startCursor # arg.endCursor /\ Len(arg.edges) >= 1
             => ret.cursor = arg.endCursor

\* C11: for every page, README calls are made one per record of the page
\* that was not in read_ids when the page arrived and has a topic, and for
\* no other record: none when there is no such record, and the page is
\* finished when as many calls have been made as there are such records.
C11_EnrichmentOrdering ==
    [][ /\ pc = "graphql_ret" /\ Len(GqlParsed.data) > 0 =>
              LET page == GqlParsed.data
                  due == Cardinality({n \in 1..Len(page) :
                            /\ page[n].id \notin Range(read_ids)
                            /\ Len(page[n].topics) > 0})
              IN  IF due = 0
                  THEN pc' # "readme" /\ readme_calls' = 0
                  ELSE pc' = "readme" /\ readme_calls' = 1 /\ page_due' = due
        /\ pc = "readme_ret" /\ pc' # "raised" =>
              IF pc' = "readme"
              THEN /\ readme_calls' = readme_calls + 1
                   /\ readme_calls' <= page_due
                   /\ page_due' = page_due
              ELSE readme_calls = page_due
        /\ pc' = "readme" =>
              /\ pc \in {"graphql_ret", "readme_ret", "readme"}
              /\ Len(repos_data_part'[Len(enhanced') + 1].topics) > 0 ]_vars
\* the first page held two records not read before, one of them without
\* topics: one README call
C11_Witness ==
    /\ pc = "readme"
    /\ read_ids = <<"R1", "R2">> /\ window_raw = 2 /\ total_read = 2
    /\ page_due = 1 /\ readme_calls = 1

\* C12: a 403 without rate-limit headers, or with X-RateLimit-Remaining
\* above 0, ends the call: no sleep, no retry, no exception, result None.
C12_ForbiddenNotRetried ==
    /\ response.status_code = 403
    /\ \/ ~HasHeader(response, RATE_REMAINING)
       \/ response.headers[RATE_REMAINING] > 0
    => /\ pc \in {"graphql_ret", "readme_ret"}
       /\ result = None
       /\ sleeps = <<>>
       /\ raised = ""

\* C13: an attempt answered 404 ends the call: no sleep, no exception,
\* result None, and no further attempt.
C13_NotFoundNotRetried ==
    [][ /\ AttemptStep /\ response'.status_code = 404 =>
              /\ pc' \in {"graphql_ret", "readme_ret"}
              /\ result' = None
              /\ sleeps' = <<>>
              /\ raised' = ""
        /\ response.status_code = 404 => ~AttemptStep ]_vars
\* a README fetch answered 404 on its only attempt
C13_Witness ==
    /\ response.status_code = 404
    /\ attempts = 1
    /\ pc = "readme_ret" /\ result = None /\ sleeps = <<>>

\* C16: the `after` argument of every query sent is the start marker or a
\* cursor the remote returned as endCursor in answer to a query with the
\* same minStars.
C16_CursorThresholdPairing ==
    pc = "graphql" =>
        \/ gql.after = NullCursor
        \/ \E pair \in issued :
              /\ pair[2] # None
              /\ pair[1] = gql.stars
              /\ gql.after = Quote(pair[2])

\* C17: against a finite result set served faithfully the run stops; it
\* asks for a further chunk only after a non-empty chunk with a cursor and
\* within chunks_max, saves no empty chunk, and does nothing once stopped.
C17_RunTermination ==
    /\ <>Done
    /\ [](/\ \A k \in 1..Len(saved) : Len(saved[k]) > 0
          /\ Len(saved) <= chunks_max
          /\ pc = "run" /\ i > 0 =>
                /\ Len(repos_data) > 0
                /\ next_cursor # None
                /\ i < chunks_max)
    /\ [][~Done]_vars
\* a run that went through a reset, saved one chunk and stopped on an
\* empty page
C17_Witness ==
    /\ pc = "done_empty"
    /\ Len(saved) = 1
    /\ more_than_stars > start_from_stars_0
    /\ Len(remote) = MaxRemote

\* C18: when the GraphQL call returns None or a body whose data, search or
\* edges is missing or empty, read_repos_data raises nothing, sends no
\* further request and returns what it has, with the cursor and minStars of
\* that query; reset_counter, read_ids and total_read are left alone.
C18_NoResultIsEmptyPage ==
    [][ /\ pc = "graphql_ret"
        /\ \/ result = None
           \/ result.shape # "ok"
           \/ Len(result.edges) = 0
        => /\ pc' \in {"run", "done_empty", "done_cursor", "done_max"}
           /\ raised' = ""
           /\ UNCHANGED <<repos_data, next_cursor, more_than_stars,
                          reset_counter, read_ids, total_read>> ]_vars

\* C19: a README fetch that returns None, a body without content or a body
\* with empty content raises nothing: the record gets no README, the next
\* record of the page is fetched, and at the end of the page only the
\* records with a README join the chunk.
C19_ReadmeAbsenceNeverRaises ==
    [][ /\ pc = "readme_ret"
        /\ \/ result = None
           \/ ~result.has_content
           \/ result.content = <<"">>
        => /\ pc' # "raised" /\ raised' = ""
           /\ IF Len(enhanced) + 1 < Len(repos_data_part)
              THEN pc' = "readme" /\ enhanced' = Append(enhanced, None)
              ELSE Len(repos_data') - Len(repos_data)
                     = Cardinality({n \in 1..Len(enhanced) : enhanced[n] # None}) ]_vars

\* C20: between pages (before a query, and when read_repos_data has
\* returned) the reset counter is within 1..MAX_ITEMS_PER_QUERY, and fewer
\* than MAX_ITEMS_PER_QUERY + PAGE_SIZE raw records are read between two
\* queries sent with the start cursor.
C20_ResetCounterBound ==
    /\ pc \in {"run", "graphql", "graphql_ret", "done_empty", "done_cursor", "done_max"}
         => 1 <= reset_counter /\ reset_counter <= MAX_ITEMS_PER_QUERY
    /\ window_raw < MAX_ITEMS_PER_QUERY + PAGE_SIZE
\* the longest window: one record short of the limit, then a full page
C20_Witness ==
    /\ pc = "graphql"
    /\ window_raw = MAX_ITEMS_PER_QUERY + PAGE_SIZE - 1
    /\ reset_counter = MAX_ITEMS_PER_QUERY
    /\ gql.after = NullCursor

====
